---- MODULE Spec2Model ----
(***************************************************************************)
(* Board engine of the minesweeper game: class GameManager                 *)
(* (src/src/app/GameManager.ts; src/unnamed/part_000 is the same class     *)
(* with initializeBoard split into helper methods).                        *)
(*                                                                         *)
(* One engine instance is modelled.  The constructor runs as a sequence    *)
(* of steps (one per random draw of placeMines, then the neighbour count)  *)
(* and afterwards the public methods revealCell, toggleFlag and            *)
(* checkWinCondition are called with arbitrary arguments.                  *)
(***************************************************************************)
EXTENDS Integers, FiniteSets, Sequences, TLC

\* at most this many cells carry a flag at once (guard of ToggleFlag)
MaxFlags == 1

Difficulty == {"easy", "medium", "hard"}

(***************************************************************************)
(* The source's presets are 9x9 with 10 mines, 16x16 with 40 and 16x30     *)
(* with 99.  The table keeps the three presets and their shape (a small    *)
(* square, a larger square, a rectangle with the most mines) at sizes      *)
(* whose boards TLC can enumerate: every mine layout of every preset is    *)
(* explored.  The 3x3 board has a cell with all eight neighbours, the      *)
(* 2x3 board has rows # cols and more than one mine.                       *)
(***************************************************************************)
DIFFICULTY_SETTINGS ==
    [easy   |-> [rows |-> 2, cols |-> 2, mines |-> 1],
     medium |-> [rows |-> 3, cols |-> 3, mines |-> 1],
     hard   |-> [rows |-> 2, cols |-> 3, mines |-> 2]]

VARIABLES
    difficulty,   \* argument of the constructor
    rows,         \* this.rows
    cols,         \* this.cols
    mines,        \* this.mines
    board,        \* this.board : board[row][col] is a CellState
    minesPlaced,  \* local counter of placeMines
    pc,           \* "placeMines" while the constructor runs, then "ready"
    call,         \* the call that has just returned: method, arguments,
                  \* result, exception; op = "none" between calls
    pre,          \* this.board as it was when that call started
    gameOver,     \* page.tsx: useState gameOver
    win,          \* page.tsx: useState win
    isLongPress,  \* page.tsx: useState isLongPress
    longPressTimer, \* page.tsx: useState longPressTimer; 0 is null
    lastTimerId,  \* the id the last setTimeout returned
    timers,       \* the pending timeouts, each with what its callback closes over
    touches,      \* the touches that have started on a cell and not ended
    events        \* the number of events the page has handled

\* the state of the component Home; the engine's methods leave it alone
homeVars ==
    <<gameOver, win, isLongPress, longPressTimer, lastTimerId, timers, touches, events>>

vars ==
    <<difficulty, rows, cols, mines, board, minesPlaced, pc, call, pre, gameOver, win,
      isLongPress, longPressTimer, lastTimerId, timers, touches, events>>

\* the nine offsets in the order of the nested loops  for i .. for j ..
Offsets ==
    << <<-1, -1>>, <<-1, 0>>, <<-1, 1>>,
       << 0, -1>>, << 0, 0>>, << 0, 1>>,
       << 1, -1>>, << 1, 0>>, << 1, 1>> >>

Positions == (0..(rows - 1)) \X (0..(cols - 1))
CellState(m, r, f, n) ==
    [isMine |-> m, isRevealed |-> r, isFlagged |-> f, neighborMines |-> n]

createEmptyBoard ==
    [row \in 0..(rows - 1) |->
        [col \in 0..(cols - 1) |-> CellState(FALSE, FALSE, FALSE, 0)]]

isValidCell(row, col) ==
    row >= 0 /\ row < rows /\ col >= 0 /\ col < cols

SetCell(b, row, col, cell) == [b EXCEPT ![row][col] = cell]

\* placeMinesStep counting a draw of an already mined cell as a placement
placeMinesStep_countsRedraw(b, placed, row, col) ==
    [board  |-> SetCell(b, row, col, [b[row][col] EXCEPT !.isMine = TRUE]),
     placed |-> placed + 1]

\* one iteration of the while loop of placeMines, for the draw (row, col)
placeMinesStep(b, placed, row, col) ==
    IF ~b[row][col].isMine
    THEN [board  |-> SetCell(b, row, col, [b[row][col] EXCEPT !.isMine = TRUE]),
          placed |-> placed + 1]
    ELSE [board |-> b, placed |-> placed]

\* isNeighborMine with an off-by-one upper bound on the column
isNeighborMine_skipsLastColumn(b, row, col, i, j) ==
    /\ row + i >= 0 /\ row + i < rows
    /\ col + j >= 0 /\ col + j < cols - 1
    /\ b[row + i][col + j].isMine

\* the test of the inner loop body of countNeighborMines for offset (i, j)
isNeighborMine(b, row, col, i, j) ==
    isValidCell(row + i, col + j) /\ b[row + i][col + j].isMine

RECURSIVE countFrom(_, _, _, _)
\* the loops of countNeighborMines from the k-th offset on
countFrom(b, row, col, k) ==
    IF k > Len(Offsets) THEN 0
    ELSE (IF isNeighborMine(b, row, col, Offsets[k][1], Offsets[k][2]) THEN 1 ELSE 0)
         + countFrom(b, row, col, k + 1)

countNeighborMines(b, row, col) == countFrom(b, row, col, 1)

\* calculateNeighborMines never run: every count stays 0
calculateNeighborMines_skipped(b) == b

calculateNeighborMines(b) ==
    [row \in DOMAIN b |-> [col \in DOMAIN b[row] |->
        IF ~b[row][col].isMine
        THEN [b[row][col] EXCEPT !.neighborMines = countNeighborMines(b, row, col)]
        ELSE b[row][col]]]

(***************************************************************************)
(* revealCell is recursive.  Its recursion is run on an explicit stack of  *)
(* pending calls: revealCellBody is one invocation up to its loop, and the *)
(* nine calls of the loop are pushed, in loop order, in front of the calls *)
(* still pending, so that calls are executed in the order the code         *)
(* executes them.                                                          *)
(***************************************************************************)

\* markRevealed storing a fresh revealed cell, its count lost
markRevealed_freshCell(b, row, col) ==
    SetCell(b, row, col, CellState(b[row][col].isMine, TRUE, b[row][col].isFlagged, 0))

\* this.board[row][col].isRevealed = true
markRevealed(b, row, col) ==
    SetCell(b, row, col, [b[row][col] EXCEPT !.isRevealed = TRUE])

\* neighborCalls of a loop  for (j = -1; j < 1; j++)
neighborCalls_skipsRight(row, col) ==
    [k \in 1..6 |-> <<row + ((k - 1) \div 2) - 1, col + ((k - 1) % 2) - 1>>]

\* the calls of the for-i/for-j loop of revealCell(row, col), in order
neighborCalls(row, col) ==
    [k \in 1..Len(Offsets) |-> <<row + Offsets[k][1], col + Offsets[k][2]>>]

\* revealCellBody testing isMine before isRevealed
revealCellBody_mineFirst(b, row, col) ==
    IF ~isValidCell(row, col)
    THEN [board |-> b, ret |-> FALSE, calls |-> <<>>]
    ELSE IF b[row][col].isMine
         THEN [board |-> markRevealed(b, row, col), ret |-> TRUE, calls |-> <<>>]
         ELSE IF b[row][col].isRevealed
              THEN [board |-> b, ret |-> FALSE, calls |-> <<>>]
              ELSE IF b[row][col].neighborMines = 0
                   THEN [board |-> markRevealed(b, row, col), ret |-> FALSE,
                         calls |-> neighborCalls(row, col)]
                   ELSE [board |-> markRevealed(b, row, col), ret |-> FALSE,
                         calls |-> <<>>]

\* revealCellBody running the loop before the test of isMine
revealCellBody_floodFromMine(b, row, col) ==
    IF ~isValidCell(row, col) \/ b[row][col].isRevealed
    THEN [board |-> b, ret |-> FALSE, calls |-> <<>>]
    ELSE [board |-> markRevealed(b, row, col),
          ret   |-> b[row][col].isMine,
          calls |-> IF b[row][col].neighborMines = 0
                    THEN neighborCalls(row, col) ELSE <<>>]

\* revealCellBody without the test  neighborMines === 0
revealCellBody_floodFromAny(b, row, col) ==
    IF ~isValidCell(row, col) \/ b[row][col].isRevealed
    THEN [board |-> b, ret |-> FALSE, calls |-> <<>>]
    ELSE IF b[row][col].isMine
         THEN [board |-> markRevealed(b, row, col), ret |-> TRUE, calls |-> <<>>]
         ELSE [board |-> markRevealed(b, row, col), ret |-> FALSE,
               calls |-> neighborCalls(row, col)]

\* revealCellBody that flips isRevealed and does not test it
revealCellBody_toggles(b, row, col) ==
    IF ~isValidCell(row, col)
    THEN [board |-> b, ret |-> FALSE, calls |-> <<>>]
    ELSE IF b[row][col].isMine
         THEN [board |-> SetCell(b, row, col,
                         [b[row][col] EXCEPT !.isRevealed = ~b[row][col].isRevealed]),
               ret |-> TRUE, calls |-> <<>>]
         ELSE [board |-> SetCell(b, row, col,
                         [b[row][col] EXCEPT !.isRevealed = ~b[row][col].isRevealed]),
               ret |-> FALSE,
               calls |-> IF b[row][col].neighborMines = 0 /\ ~b[row][col].isRevealed
                         THEN neighborCalls(row, col) ELSE <<>>]

\* revealCellBody treating a flagged cell like a revealed one
revealCellBody_flagBlocks(b, row, col) ==
    IF ~isValidCell(row, col) \/ b[row][col].isRevealed \/ b[row][col].isFlagged
    THEN [board |-> b, ret |-> FALSE, calls |-> <<>>]
    ELSE IF b[row][col].isMine
         THEN [board |-> markRevealed(b, row, col), ret |-> TRUE, calls |-> <<>>]
         ELSE IF b[row][col].neighborMines = 0
              THEN [board |-> markRevealed(b, row, col), ret |-> FALSE,
                    calls |-> neighborCalls(row, col)]
              ELSE [board |-> markRevealed(b, row, col), ret |-> FALSE,
                    calls |-> <<>>]

\* revealCellBody flooding from every cell with a count below 2
revealCellBody_floodBelowTwo(b, row, col) ==
    IF ~isValidCell(row, col) \/ b[row][col].isRevealed
    THEN [board |-> b, ret |-> FALSE, calls |-> <<>>]
    ELSE IF b[row][col].isMine
         THEN [board |-> markRevealed(b, row, col), ret |-> TRUE, calls |-> <<>>]
         ELSE IF b[row][col].neighborMines < 2
              THEN [board |-> markRevealed(b, row, col), ret |-> FALSE,
                    calls |-> neighborCalls(row, col)]
              ELSE [board |-> markRevealed(b, row, col), ret |-> FALSE,
                    calls |-> <<>>]

\* revealCellBody without the test of isRevealed
revealCellBody_noRevealedTest(b, row, col) ==
    IF ~isValidCell(row, col)
    THEN [board |-> b, ret |-> FALSE, calls |-> <<>>]
    ELSE IF b[row][col].isMine
         THEN [board |-> markRevealed(b, row, col), ret |-> TRUE, calls |-> <<>>]
         ELSE IF b[row][col].neighborMines = 0
              THEN [board |-> markRevealed(b, row, col), ret |-> FALSE,
                    calls |-> neighborCalls(row, col)]
              ELSE [board |-> markRevealed(b, row, col), ret |-> FALSE,
                    calls |-> <<>>]

\* one invocation of revealCell(row, col) on board b: the board after the
\* assignment, the value returned, and the recursive calls its loop makes
revealCellBody(b, row, col) ==
    IF ~isValidCell(row, col) \/ b[row][col].isRevealed
    THEN [board |-> b, ret |-> FALSE, calls |-> <<>>]
    ELSE IF b[row][col].isMine
         THEN [board |-> markRevealed(b, row, col), ret |-> TRUE, calls |-> <<>>]
         ELSE IF b[row][col].neighborMines = 0
              THEN [board |-> markRevealed(b, row, col), ret |-> FALSE,
                    calls |-> neighborCalls(row, col)]
              ELSE [board |-> markRevealed(b, row, col), ret |-> FALSE,
                    calls |-> <<>>]

\* execute the first pending call; marked lists, in order, the cells whose
\* isRevealed an invocation has set (an invocation that leaves the board as
\* it was has returned at its guard)
revealStep(cfg) ==
    IF cfg.pending = <<>> THEN cfg
    ELSE LET r == revealCellBody(cfg.board, Head(cfg.pending)[1], Head(cfg.pending)[2])
         IN [board   |-> r.board,
             pending |-> r.calls \o Tail(cfg.pending),
             marked  |-> IF r.board # cfg.board
                         THEN Append(cfg.marked, Head(cfg.pending))
                         ELSE cfg.marked]

RECURSIVE revealSteps(_, _)
\* n times revealStep: the first half of the steps, then the rest from the
\* configuration they leave (bound to mid as a value, so that the steps are
\* evaluated in order)
revealSteps(n, cfg) ==
    IF n = 0 \/ cfg.pending = <<>> THEN cfg
    ELSE IF n = 1 THEN revealStep(cfg)
    ELSE CHOOSE end \in {revealSteps(n - (n \div 2), mid) :
                             mid \in {revealSteps(n \div 2, cfg)}} : TRUE

\* a call marks a cell or makes no further call, and a marked cell makes
\* nine calls: no more than this many calls are executed
MaxRevealCalls == 9 * rows * cols + 1

\* revealCell(row, col) run to completion: the board it leaves, the value
\* the outermost call returns (the loop discards those of the inner calls),
\* the calls left pending (none, when the recursion has terminated) and the
\* cells marked
revealCell(b, row, col) ==
    LET end == revealSteps(MaxRevealCalls,
                           [board |-> b, pending |-> << <<row, col>> >>, marked |-> <<>>])
    IN [board |-> end.board,
        ret |-> revealCellBody(b, row, col).ret,
        pending |-> end.pending,
        marked |-> end.marked]

\* checkWinCondition that also wants every mine flagged
checkWinCondition_needsFlags(b) ==
    \A row \in DOMAIN b : \A col \in DOMAIN b[row] :
        (b[row][col].isMine /\ b[row][col].isFlagged) \/ b[row][col].isRevealed

checkWinCondition(b) ==
    \A row \in DOMAIN b : \A col \in DOMAIN b[row] :
        b[row][col].isMine \/ b[row][col].isRevealed

\* toggleFlag without the test of isRevealed
toggleFlag_ignoresRevealed(b, row, col) ==
    IF ~(row \in DOMAIN b /\ col \in DOMAIN b[row])
    THEN [board |-> b, threw |-> TRUE]
    ELSE [board |-> SetCell(b, row, col,
                    [b[row][col] EXCEPT !.isFlagged = ~b[row][col].isFlagged]),
          threw |-> FALSE]

\* toggleFlag(row, col).  There is no bounds check: for a position outside
\* the grid this.board[row] or this.board[row][col] is undefined, and
\* reading a property of undefined throws a TypeError before any write.
toggleFlag(b, row, col) ==
    IF ~(row \in DOMAIN b /\ col \in DOMAIN b[row])
    THEN [board |-> b, threw |-> TRUE]
    ELSE IF ~b[row][col].isRevealed
         THEN [board |-> SetCell(b, row, col,
                         [b[row][col] EXCEPT !.isFlagged = ~b[row][col].isFlagged]),
               threw |-> FALSE]
         ELSE [board |-> b, threw |-> FALSE]

Flagged(b) == {p \in Positions : b[p[1]][p[2]].isFlagged}
Revealed(b) == {p \in Positions : b[p[1]][p[2]].isRevealed}
Mined(b) == {p \in Positions : b[p[1]][p[2]].isMine}

\* arguments the callers pass: every cell of the grid, and positions beyond
\* each of its four sides and beyond a corner
Args ==
    Positions \cup {<<-1, 0>>, <<rows, cols - 1>>, <<0, -1>>, <<rows - 1, cols>>,
                    <<-1, cols>>}

Call(op, row, col, ret, threw) ==
    [op |-> op, row |-> row, col |-> col, ret |-> ret, threw |-> threw]

\* a call of revealCell with result r: besides what it returned, the calls
\* it left pending and the cells it marked
RevealCall(row, col, r) ==
    [op |-> "revealCell", row |-> row, col |-> col, ret |-> r.ret, threw |-> FALSE,
     pending |-> r.pending, marked |-> r.marked]

Init ==
    /\ difficulty \in Difficulty
    /\ rows = DIFFICULTY_SETTINGS[difficulty].rows
    /\ cols = DIFFICULTY_SETTINGS[difficulty].cols
    /\ mines = DIFFICULTY_SETTINGS[difficulty].mines
    /\ board = createEmptyBoard
    /\ minesPlaced = 0
    /\ pc = "placeMines"
    /\ call = Call("constructor", 0, 0, FALSE, FALSE)
    /\ pre = board
    /\ gameOver = FALSE
    /\ win = FALSE
    /\ isLongPress = FALSE
    /\ longPressTimer = 0
    /\ lastTimerId = 0
    /\ timers = {}
    /\ touches = {}
    /\ events = 0

\* one iteration of  while (minesPlaced < this.mines)  with a random draw
PlaceMine(row, col) ==
    /\ pc = "placeMines"
    /\ minesPlaced < mines
    /\ \E s \in {placeMinesStep(board, minesPlaced, row, col)} :
          /\ board' = s.board
          /\ minesPlaced' = s.placed
    /\ call' = Call("placeMines", row, col, FALSE, FALSE)
    /\ pre' = board
    /\ UNCHANGED <<difficulty, rows, cols, mines, pc>>
    /\ UNCHANGED homeVars

\* the loop has ended: calculateNeighborMines, and the constructor returns
FinishInitializeBoard ==
    /\ pc = "placeMines"
    /\ ~(minesPlaced < mines)
    /\ board' = calculateNeighborMines(board)
    /\ pc' = "ready"
    /\ call' = Call("initializeBoard", 0, 0, FALSE, FALSE)
    /\ pre' = board
    /\ UNCHANGED <<difficulty, rows, cols, mines, minesPlaced>>
    /\ UNCHANGED homeVars

\* no call is under way
Idle == call.op = "none"

RevealCell(row, col) ==
    /\ pc = "ready"
    /\ Idle
    /\ \E r \in {revealCell(board, row, col)} :
          /\ board' = r.board
          /\ call' = RevealCall(row, col, r)
    /\ pre' = board
    /\ UNCHANGED <<difficulty, rows, cols, mines, minesPlaced, pc>>
    /\ UNCHANGED homeVars

ToggleFlag(row, col) ==
    /\ pc = "ready"
    /\ Idle
    /\ \E r \in {toggleFlag(board, row, col)} :
          /\ Cardinality(Flagged(r.board)) <= MaxFlags
          /\ board' = r.board
          /\ call' = Call("toggleFlag", row, col, FALSE, r.threw)
    /\ pre' = board
    /\ UNCHANGED <<difficulty, rows, cols, mines, minesPlaced, pc>>
    /\ UNCHANGED homeVars

CheckWinCondition ==
    /\ pc = "ready"
    /\ Idle
    /\ call' = Call("checkWinCondition", 0, 0, checkWinCondition(board), FALSE)
    /\ pre' = board
    /\ UNCHANGED <<difficulty, rows, cols, mines, board, minesPlaced, pc>>
    /\ UNCHANGED homeVars

\* the caller has taken the result of the call
Return ==
    /\ pc = "ready"
    /\ ~Idle
    /\ call' = Call("none", 0, 0, FALSE, FALSE)
    /\ pre' = board
    /\ UNCHANGED <<difficulty, rows, cols, mines, board, minesPlaced, pc>>
    /\ UNCHANGED homeVars

Next ==
    \/ \E row \in 0..(rows - 1), col \in 0..(cols - 1) : PlaceMine(row, col)
    \/ FinishInitializeBoard
    \/ \E p \in Args : RevealCell(p[1], p[2])
    \/ \E p \in Args : ToggleFlag(p[1], p[2])
    \/ CheckWinCondition
    \/ Return

Spec == Init /\ [][Next]_vars

(***************************************************************************)
(* The constructor under fair random draws.  Math.random() is taken to     *)
(* draw every cell again and again: a draw that is possible for ever is    *)
(* eventually made.  After the constructor only checkWinCondition, which   *)
(* reads the board, is called.                                             *)
(***************************************************************************)

\* the cells of the largest boards of the table
Draws ==
    UNION {(0..(DIFFICULTY_SETTINGS[d].rows - 1)) \X (0..(DIFFICULTY_SETTINGS[d].cols - 1)) :
              d \in Difficulty}

FairDraws ==
    /\ \A p \in Draws : WF_vars(isValidCell(p[1], p[2]) /\ PlaceMine(p[1], p[2]))
    /\ WF_vars(FinishInitializeBoard)

NextConstruct ==
    \/ \E row \in 0..(rows - 1), col \in 0..(cols - 1) : PlaceMine(row, col)
    \/ FinishInitializeBoard
    \/ CheckWinCondition
    \/ Return

ConstructSpec == Init /\ [][NextConstruct]_vars /\ FairDraws

(***************************************************************************)
(* The component Home (src/src/app/page.tsx).  Its state is the useState   *)
(* values; the engine in gameManager is the engine modelled above, and     *)
(* new GameManager(difficulty) runs the constructor's steps, during which  *)
(* no event is handled.  A handler reads the state of the render it was    *)
(* created in.  The handlers of the buttons are those of the last render,  *)
(* so they read the current state; the callback of a timeout is created    *)
(* in handlePressStart and closes over handleCellAction, and with it over  *)
(* gameManager, gameOver and win, of the render in which the press         *)
(* started.  All timeouts have the same delay and expire in the order in   *)
(* which they were set.  showInstructions and forceUpdateFlag only cause   *)
(* renders and are left out.                                               *)
(***************************************************************************)

\* at most this many events are handled (guard of every handler)
MaxEvents == 3

\* what the handlers of the last render close over
Render == [gameOver |-> gameOver, win |-> win, live |-> TRUE]

\* handleCellAction without the test of win
handleCellAction_noWinGuard(b, closure, row, col, long) ==
    IF closure.gameOver
    THEN [board |-> b, calls |-> <<>>, gameOver |-> gameOver, win |-> win]
    ELSE IF long
         THEN [board |-> IF closure.live THEN toggleFlag(b, row, col).board ELSE b,
               calls |-> << Call("toggleFlag", row, col, FALSE,
                                 closure.live /\ toggleFlag(b, row, col).threw) >>,
               gameOver |-> gameOver, win |-> win]
         ELSE LET r == revealCell(b, row, col)
              IN IF r.ret
                 THEN [board |-> r.board,
                       calls |-> << Call("revealCell", row, col, TRUE, FALSE) >>,
                       gameOver |-> TRUE, win |-> win]
                 ELSE [board |-> r.board,
                       calls |-> << Call("revealCell", row, col, FALSE, FALSE),
                                    Call("checkWinCondition", 0, 0,
                                         checkWinCondition(r.board), FALSE) >>,
                       gameOver |-> gameOver,
                       win |-> IF checkWinCondition(r.board) THEN TRUE ELSE win]

\* handleCellAction(row, col, isLongPress) of a render with the values of
\* closure, on board b of the engine in gameManager: the board it leaves,
\* the calls it makes on the engine of its render, and gameOver and win
\* after its setGameOver / setWin.  An engine that is no longer in
\* gameManager (live = FALSE) has its own board, which no render shows.
handleCellAction(b, closure, row, col, long) ==
    IF closure.gameOver \/ closure.win
    THEN [board |-> b, calls |-> <<>>, gameOver |-> gameOver, win |-> win]
    ELSE IF long
         THEN [board |-> IF closure.live THEN toggleFlag(b, row, col).board ELSE b,
               calls |-> << Call("toggleFlag", row, col, FALSE,
                                 closure.live /\ toggleFlag(b, row, col).threw) >>,
               gameOver |-> gameOver, win |-> win]
         ELSE LET r == revealCell(b, row, col)
              IN IF r.ret
                 THEN [board |-> r.board,
                       calls |-> << Call("revealCell", row, col, TRUE, FALSE) >>,
                       gameOver |-> TRUE, win |-> win]
                 ELSE [board |-> r.board,
                       calls |-> << Call("revealCell", row, col, FALSE, FALSE),
                                    Call("checkWinCondition", 0, 0,
                                         checkWinCondition(r.board), FALSE) >>,
                       gameOver |-> gameOver,
                       win |-> IF checkWinCondition(r.board) THEN TRUE ELSE win]

\* the grid is shown, and the next event is handled
Interactive == pc = "ready" /\ events < MaxEvents

\* onClick of a cell button
OnClick(row, col) ==
    /\ Interactive
    /\ \E h \in {handleCellAction(board, Render, row, col, FALSE)} :
          /\ board' = h.board
          /\ gameOver' = h.gameOver
          /\ win' = h.win
    /\ events' = events + 1
    /\ UNCHANGED <<difficulty, rows, cols, mines, minesPlaced, pc, call, pre>>
    /\ UNCHANGED <<isLongPress, longPressTimer, lastTimerId, timers, touches>>

\* onTouchStart of a cell button no touch is on: handlePressStart
HandlePressStart(row, col) ==
    /\ Interactive
    /\ \A t \in touches : <<t.row, t.col>> # <<row, col>>
    /\ isLongPress' = FALSE
    /\ lastTimerId' = lastTimerId + 1
    /\ timers' = timers \cup {[id |-> lastTimerId', row |-> row, col |-> col,
                               gameOver |-> gameOver, win |-> win, live |-> TRUE]}
    /\ longPressTimer' = lastTimerId'
    /\ touches' = touches \cup
                      {[row |-> row, col |-> col, timer |-> lastTimerId', fired |-> FALSE]}
    /\ events' = events + 1
    /\ UNCHANGED <<difficulty, rows, cols, mines, board, minesPlaced, pc, call, pre>>
    /\ UNCHANGED <<gameOver, win>>

\* onTouchEnd or onTouchCancel of the button touch t is on: handlePressEnd
HandlePressEnd(t) ==
    /\ Interactive
    /\ t \in touches
    /\ timers' = IF longPressTimer # 0
                 THEN {x \in timers : x.id # longPressTimer}
                 ELSE timers
    /\ longPressTimer' = 0
    /\ \E h \in {IF ~isLongPress
                THEN handleCellAction(board, Render, t.row, t.col, FALSE)
                ELSE [board |-> board, calls |-> <<>>, gameOver |-> gameOver, win |-> win]} :
          /\ board' = h.board
          /\ gameOver' = h.gameOver
          /\ win' = h.win
    /\ touches' = touches \ {t}
    /\ events' = events + 1
    /\ UNCHANGED <<difficulty, rows, cols, mines, minesPlaced, pc, call, pre>>
    /\ UNCHANGED <<isLongPress, lastTimerId>>

\* the callback of timeout x, set by setTimeout in handlePressStart
LongPressTimeout(x) ==
    /\ Interactive
    /\ x \in timers
    /\ \A y \in timers : x.id <= y.id
    /\ isLongPress' = TRUE
    /\ \E h \in {handleCellAction(board, [gameOver |-> x.gameOver, win |-> x.win,
                                         live |-> x.live], x.row, x.col, TRUE)} :
          /\ board' = h.board
          /\ gameOver' = h.gameOver
          /\ win' = h.win
    /\ timers' = timers \ {x}
    /\ touches' = {IF t.timer = x.id THEN [t EXCEPT !.fired = TRUE] ELSE t : t \in touches}
    /\ events' = events + 1
    /\ UNCHANGED <<difficulty, rows, cols, mines, minesPlaced, pc, call, pre>>
    /\ UNCHANGED <<longPressTimer, lastTimerId>>

\* onContextMenu of a cell button: preventDefault, and nothing else
OnRightClick(row, col) ==
    /\ Interactive
    /\ events' = events + 1
    /\ UNCHANGED <<difficulty, rows, cols, mines, board, minesPlaced, pc, call, pre>>
    /\ UNCHANGED <<gameOver, win, isLongPress, longPressTimer, lastTimerId, timers, touches>>

\* the button "new game": startNewGame, up to the call of the constructor.
\* The engine the pending timeouts close over is no longer in gameManager.
StartNewGame ==
    /\ Interactive
    /\ gameOver' = FALSE
    /\ win' = FALSE
    /\ board' = createEmptyBoard
    /\ minesPlaced' = 0
    /\ pc' = "placeMines"
    /\ call' = Call("constructor", 0, 0, FALSE, FALSE)
    /\ pre' = board'
    /\ timers' = {[x EXCEPT !.live = FALSE] : x \in timers}
    /\ events' = events + 1
    /\ UNCHANGED <<difficulty, rows, cols, mines>>
    /\ UNCHANGED <<isLongPress, longPressTimer, lastTimerId, touches>>

\* onChange of the select with another difficulty: setDifficulty, the render
\* and its effect, up to the call of the constructor.  The buttons of cells
\* the new grid does not have are removed, and their touches with them.
SetDifficulty(d) ==
    /\ Interactive
    /\ d # difficulty
    /\ difficulty' = d
    /\ rows' = DIFFICULTY_SETTINGS[d].rows
    /\ cols' = DIFFICULTY_SETTINGS[d].cols
    /\ mines' = DIFFICULTY_SETTINGS[d].mines
    /\ board' = createEmptyBoard'
    /\ minesPlaced' = 0
    /\ pc' = "placeMines"
    /\ call' = Call("constructor", 0, 0, FALSE, FALSE)
    /\ pre' = board'
    /\ gameOver' = FALSE
    /\ win' = FALSE
    /\ timers' = {[x EXCEPT !.live = FALSE] : x \in timers}
    /\ touches' = {t \in touches : t.row < rows' /\ t.col < cols'}
    /\ events' = events + 1
    /\ UNCHANGED <<isLongPress, longPressTimer, lastTimerId>>

\* the first render: difficulty is 'easy' and the effect constructs the engine
HomeInit == Init /\ difficulty = "easy"

HomeNext ==
    \/ \E row \in 0..(rows - 1), col \in 0..(cols - 1) : PlaceMine(row, col)
    \/ FinishInitializeBoard
    \/ \E p \in Positions : OnClick(p[1], p[2])
    \/ \E p \in Positions : HandlePressStart(p[1], p[2])
    \/ \E t \in touches : HandlePressEnd(t)
    \/ \E x \in timers : LongPressTimeout(x)
    \/ \E p \in Positions : OnRightClick(p[1], p[2])
    \/ StartNewGame
    \/ \E d \in Difficulty : SetDifficulty(d)

HomeSpec == HomeInit /\ [][HomeNext]_vars

(***************************************************************************)
(* Properties.                                                             *)
(***************************************************************************)

\* the method op has just returned
After(op) == pc = "ready" /\ call.op = op

\* the position the last call was made with
Target == <<call.row, call.col>>

InGrid(p) == p \in Positions

\* the grid neighbours of p: the up to eight positions around it
Nbrs(p) ==
    {q \in Positions : /\ q # p
                       /\ q[1] - p[1] \in {-1, 0, 1}
                       /\ q[2] - p[2] \in {-1, 0, 1}}

Cell(b, p) == b[p[1]][p[2]]

\* board b with exactly the cells of R revealed
WithRevealed(b, R) ==
    [row \in DOMAIN b |-> [col \in DOMAIN b[row] |->
        [b[row][col] EXCEPT !.isRevealed = (<<row, col>> \in R)]]]

\* board b with no flag
WithoutFlags(b) ==
    [row \in DOMAIN b |-> [col \in DOMAIN b[row] |->
        [b[row][col] EXCEPT !.isFlagged = FALSE]]]

ZeroCell(b, p) == ~Cell(b, p).isMine /\ Cell(b, p).neighborMines = 0

RECURSIVE GrowZeroRegion(_, _)
GrowZeroRegion(b, S) ==
    IF \E q \in Positions \ S : ZeroCell(b, q) /\ Nbrs(q) \cap S # {}
    THEN GrowZeroRegion(b, S \cup {q \in Positions \ S :
                                      ZeroCell(b, q) /\ Nbrs(q) \cap S # {}})
    ELSE S

\* the maximal 8-connected region of zero-count cells that contains p
ZeroRegion(b, p) == GrowZeroRegion(b, {p})

\* a region together with every grid neighbour of its cells
WithBorder(S) == S \cup UNION {Nbrs(q) : q \in S}

\* C1: for every difficulty, the board the constructor leaves has the
\* configured rows x cols cells, exactly the configured number of mines,
\* and no cell revealed or flagged.
C1_ConstructedBoard ==
    After("initializeBoard") =>
        /\ rows = DIFFICULTY_SETTINGS[difficulty].rows
        /\ cols = DIFFICULTY_SETTINGS[difficulty].cols
        /\ mines = DIFFICULTY_SETTINGS[difficulty].mines
        /\ DOMAIN board = 0..(DIFFICULTY_SETTINGS[difficulty].rows - 1)
        /\ \A row \in DOMAIN board :
              DOMAIN board[row] = 0..(DIFFICULTY_SETTINGS[difficulty].cols - 1)
        /\ Cardinality(Mined(board)) = DIFFICULTY_SETTINGS[difficulty].mines
        /\ Revealed(board) = {}
        /\ Flagged(board) = {}

\* a board with more than one mine has been constructed
C1_Witness ==
    /\ After("initializeBoard")
    /\ Cardinality(Mined(board)) > 1

\* C2: after construction, neighborMines of every non-mine cell is the
\* number of mines among its grid neighbours.
C2_NeighborCounts ==
    After("initializeBoard") =>
        \A p \in Positions :
            ~Cell(board, p).isMine =>
                Cell(board, p).neighborMines =
                    Cardinality({q \in Nbrs(p) : Cell(board, q).isMine})

\* a corner cell counts two mines, one of them in the last column
C2_Witness ==
    /\ After("initializeBoard")
    /\ \E p \in Positions :
          /\ Cardinality(Nbrs(p)) = 3
          /\ ~Cell(board, p).isMine
          /\ Cell(board, p).neighborMines = 2
          /\ \E q \in Nbrs(p) : Cell(board, q).isMine /\ q[2] = cols - 1

\* C3: revealCell outside the grid or on a revealed cell changes nothing
\* and returns false.
C3_RevealNoOp ==
    After("revealCell") /\ (~InGrid(Target) \/ Cell(pre, Target).isRevealed) =>
        /\ board = pre
        /\ call.ret = FALSE

\* revealCell has been called on a revealed mine
C3_Witness ==
    /\ After("revealCell")
    /\ InGrid(Target)
    /\ Cell(pre, Target).isRevealed
    /\ Cell(pre, Target).isMine

\* C4: revealCell on an unrevealed mine returns true and reveals that cell
\* only.
C4_RevealMine ==
    After("revealCell") /\ InGrid(Target) /\ ~Cell(pre, Target).isRevealed
                       /\ Cell(pre, Target).isMine =>
        /\ call.ret = TRUE
        /\ board = WithRevealed(pre, Revealed(pre) \cup {Target})

\* an unrevealed mine has been revealed and has unrevealed neighbours
C4_Witness ==
    /\ After("revealCell")
    /\ InGrid(Target)
    /\ ~Cell(pre, Target).isRevealed
    /\ Cell(pre, Target).isMine
    /\ \E q \in Nbrs(Target) : ~Cell(board, q).isRevealed

\* C5: revealCell on an unrevealed zero-count cell returns false and leaves
\* revealed the cells revealed before, the zero region of the target and
\* the neighbours of that region, and nothing else.
C5_FloodFill ==
    After("revealCell") /\ InGrid(Target) /\ ~Cell(pre, Target).isRevealed
                       /\ ZeroCell(pre, Target) =>
        /\ call.ret = FALSE
        /\ board = WithRevealed(pre, Revealed(pre)
                                      \cup WithBorder(ZeroRegion(pre, Target)))

\* a flood fill over several zero cells has stopped short of a non-mine cell
C5_Witness ==
    /\ After("revealCell")
    /\ InGrid(Target)
    /\ ~Cell(pre, Target).isRevealed
    /\ ZeroCell(pre, Target)
    /\ Cardinality(ZeroRegion(pre, Target)) > 1
    /\ \E q \in Positions : ~Cell(board, q).isMine /\ ~Cell(board, q).isRevealed

\* C6: checkWinCondition returns true exactly when every non-mine cell is
\* revealed, whatever the flags and the revealed mines, and changes nothing.
C6_WinCondition ==
    After("checkWinCondition") =>
        /\ call.ret = (\A p \in Positions :
                          ~Cell(board, p).isMine => Cell(board, p).isRevealed)
        /\ board = pre

\* checkWinCondition has returned true with a flag set and a mine hidden
C6_Witness ==
    /\ After("checkWinCondition")
    /\ call.ret = TRUE
    /\ Flagged(board) # {}
    /\ \E p \in Positions : Cell(board, p).isMine /\ ~Cell(board, p).isRevealed

\* C7: toggleFlag on a revealed cell of the grid changes nothing; on an
\* unrevealed one it negates isFlagged of that cell and nothing else, so
\* that a second toggleFlag on the cell restores the board.
C7_ToggleFlag ==
    After("toggleFlag") /\ InGrid(Target) =>
        /\ ~call.threw
        /\ IF Cell(pre, Target).isRevealed
           THEN board = pre
           ELSE /\ board = [pre EXCEPT ![call.row][call.col].isFlagged =
                                           ~Cell(pre, Target).isFlagged]
                /\ toggleFlag(board, call.row, call.col).board = pre

\* toggleFlag has been called on a revealed cell while another cell is
\* flagged
C7_Witness ==
    /\ After("toggleFlag")
    /\ InGrid(Target)
    /\ Cell(pre, Target).isRevealed
    /\ Flagged(pre) # {}

\* C8: a revealed cell stays revealed in every later state.
C8_RevealedForever ==
    [][\A p \in Positions :
          Cell(board, p).isRevealed => Cell(board', p).isRevealed]_vars

\* revealCell has been called on a cell that was revealed before
C8_Witness ==
    /\ After("revealCell")
    /\ InGrid(Target)
    /\ Cell(pre, Target).isRevealed
    /\ ~Cell(pre, Target).isMine
    /\ Cell(board, Target).isRevealed

\* C9: toggleFlag outside the grid raises no error and changes nothing.
C9_ToggleFlagOutOfRange ==
    After("toggleFlag") /\ ~InGrid(Target) =>
        /\ ~call.threw
        /\ board = pre

\* C10: revealCell never changes a flag, and reveals the board as it
\* would with every flag removed: same return value, same revealed cells.
C10_FlagDoesNotBlock ==
    After("revealCell") =>
        \A unflagged \in {revealCell(WithoutFlags(pre), call.row, call.col)} :
            /\ Flagged(board) = Flagged(pre)
            /\ call.ret = unflagged.ret
            /\ Revealed(board) = Revealed(unflagged.board)
            /\ InGrid(Target) => Cell(board, Target).isRevealed

\* a flood fill has revealed a flagged cell other than its target
C10_Witness ==
    /\ After("revealCell")
    /\ \E q \in Flagged(pre) :
          /\ q # Target
          /\ ~Cell(pre, q).isRevealed
          /\ Cell(board, q).isRevealed

\* C13: revealCell on an unrevealed non-mine cell of the grid with a
\* positive count returns false and reveals that cell and no other.
C13_PositiveCountStops ==
    After("revealCell") /\ InGrid(Target) /\ ~Cell(pre, Target).isRevealed
                       /\ ~Cell(pre, Target).isMine
                       /\ Cell(pre, Target).neighborMines > 0 =>
        /\ call.ret = FALSE
        /\ board = WithRevealed(pre, Revealed(pre) \cup {Target})

\* on the 3x3 board with its mine at (1,1), revealCell(0,0) was the first
\* call and has revealed (0,0) alone
C13_Witness ==
    /\ After("revealCell")
    /\ rows = 3 /\ cols = 3
    /\ Mined(board) = {<<1, 1>>}
    /\ Target = <<0, 0>>
    /\ Revealed(pre) = {}
    /\ Cell(board, Target).neighborMines = 1
    /\ Revealed(board) = {<<0, 0>>}

\* the mine layout and the counts of board b
Layout(b) ==
    [p \in Positions |-> <<Cell(b, p).isMine, Cell(b, p).neighborMines>>]

\* C14: once the constructor has returned, no step changes isMine or
\* neighborMines of any cell, nor rows, cols or mines.
C14_LayoutFixed ==
    [][pc = "ready" =>
          /\ rows' = rows /\ cols' = cols /\ mines' = mines
          /\ DOMAIN board' = DOMAIN board
          /\ \A row \in DOMAIN board : DOMAIN board'[row] = DOMAIN board[row]
          /\ \A row \in DOMAIN board : \A col \in DOMAIN board[row] :
                /\ board'[row][col].isMine = board[row][col].isMine
                /\ board'[row][col].neighborMines = board[row][col].neighborMines]_vars

\* a revealCell has revealed a cell with a positive count on a board that
\* carries a flag
C14_Witness ==
    /\ After("revealCell")
    /\ Flagged(pre) # {}
    /\ \E p \in Revealed(board) \ Revealed(pre) : Cell(board, p).neighborMines > 0

\* the elements of sequence s are pairwise different
NoDuplicates(s) == \A i, j \in DOMAIN s : s[i] = s[j] => i = j

\* C15: a revealCell call terminates; each invocation that does not return
\* at the guard marks a cell that was unrevealed, no cell is marked twice,
\* and at most rows * cols cells are marked.
C15_RevealTerminates ==
    After("revealCell") =>
        /\ call.pending = <<>>
        /\ NoDuplicates(call.marked)
        /\ Len(call.marked) <= rows * cols
        /\ \A i \in DOMAIN call.marked :
              /\ InGrid(call.marked[i])
              /\ ~Cell(pre, call.marked[i]).isRevealed
              /\ Cell(board, call.marked[i]).isRevealed
        /\ \A p \in Positions :
              Cell(board, p).isRevealed /\ ~Cell(pre, p).isRevealed =>
                  \E i \in DOMAIN call.marked : call.marked[i] = p

\* a flood fill over a board with cells revealed before has marked at
\* least four cells
C15_Witness ==
    /\ After("revealCell")
    /\ Revealed(pre) # {}
    /\ Len(call.marked) >= 4

\* C18: once the constructor has returned, every revealed non-mine cell
\* with count 0 has all its grid neighbours revealed.
C18_ZeroClosed ==
    pc = "ready" =>
        \A row \in DOMAIN board : \A col \in DOMAIN board[row] :
            (/\ board[row][col].isRevealed
             /\ ~board[row][col].isMine
             /\ board[row][col].neighborMines = 0) =>
                \A i, j \in {-1, 0, 1} :
                    (/\ row + i \in DOMAIN board
                     /\ col + j \in DOMAIN board[row]) =>
                        board[row + i][col + j].isRevealed

\* a revealed zero cell has a neighbour to its right, and some cell of the
\* board is unrevealed
C18_Witness ==
    /\ pc = "ready"
    /\ \E p \in Positions :
          /\ Cell(board, p).isRevealed /\ ZeroCell(board, p)
          /\ p[2] + 1 < cols
    /\ Revealed(board) # Positions

\* C19: a revealCell call returns true exactly when its target is an
\* unrevealed mine of the grid, and then that mine is the one mine it
\* reveals; a call that returns false reveals no mine; toggleFlag and
\* checkWinCondition reveal none.
C19_MinesRevealedDirectly ==
    /\ After("revealCell") =>
          /\ call.ret = (/\ InGrid(Target)
                         /\ ~Cell(pre, Target).isRevealed
                         /\ Cell(pre, Target).isMine)
          /\ \A row \in DOMAIN board : \A col \in DOMAIN board[row] :
                board[row][col].isMine =>
                    (board[row][col].isRevealed =
                        (\/ pre[row][col].isRevealed
                         \/ (call.ret /\ call.row = row /\ call.col = col)))
    /\ After("toggleFlag") \/ After("checkWinCondition") =>
          \A row \in DOMAIN board : \A col \in DOMAIN board[row] :
              board[row][col].isMine =>
                  board[row][col].isRevealed = pre[row][col].isRevealed

\* a flood fill has returned false and stopped next to an unrevealed mine
C19_Witness ==
    /\ After("revealCell")
    /\ call.ret = FALSE
    /\ Cardinality(Revealed(board) \ Revealed(pre)) > 1
    /\ \E p \in Mined(board) :
          /\ ~Cell(board, p).isRevealed
          /\ \E q \in Nbrs(p) : q \in Revealed(board) \ Revealed(pre)

\* C16: under fair draws the placement loop ends, with exactly mines mined
\* cells; at every step the mined cells are as many as minesPlaced and no
\* more than mines, and a draw of a mined cell changes nothing.
C16_PlacementTerminates ==
    /\ [](/\ Cardinality(Mined(board)) <= mines
          /\ mines < rows * cols
          /\ pc = "placeMines" => minesPlaced = Cardinality(Mined(board))
          /\ (pc = "placeMines" /\ call.op = "placeMines" /\ Cell(pre, Target).isMine) =>
                 (board = pre /\ Cardinality(Mined(board)) < mines))
    /\ <>(pc = "ready" /\ Cardinality(Mined(board)) = mines)

\* the second mine of a board is still to be placed and the last draw was a
\* mined cell
C16_Witness ==
    /\ pc = "placeMines"
    /\ call.op = "placeMines"
    /\ Cell(pre, Target).isMine
    /\ minesPlaced = 1
    /\ mines = 2

\* the page shows a game that is neither lost nor won
InPlay == pc = "ready" /\ ~gameOver /\ ~win

\* C11: once gameOver or win is set, no event of the page changes the board
\* of that game's engine (no revealCell, no toggleFlag takes effect) until
\* a new engine is constructed.
C11_NoCallsAfterEnd ==
    [][(pc = "ready" /\ (gameOver \/ win) /\ pc' = "ready") => board' = board]_vars

\* C12: a right click on an unrevealed cell of a game in play toggles the
\* flag of that cell.
C12_RightClickFlags ==
    [][\A p \in Positions :
          (InPlay /\ ~Cell(board, p).isRevealed /\ OnRightClick(p[1], p[2])) =>
              board' = toggleFlag(board, p[1], p[2]).board]_vars

\* C17: a touch that ends before its timeout has expired cancels that
\* timeout and, in a game in play, reveals its cell and toggles no flag; a
\* timeout that expires while its touch lasts toggles the flag of the cell,
\* and the end of that touch reveals nothing.
C17_TapOrLongPress ==
    [][/\ \A t \in touches :
             (HandlePressEnd(t) /\ ~t.fired) =>
                 /\ \A x \in timers' : x.id # t.timer
                 /\ InPlay => board' = revealCell(board, t.row, t.col).board
       /\ \A t \in touches :
             (HandlePressEnd(t) /\ t.fired) => board' = board
       /\ \A x \in timers :
             (LongPressTimeout(x) /\ InPlay /\ x.live
                                  /\ \E t \in touches : t.timer = x.id) =>
                 board' = toggleFlag(board, x.row, x.col).board]_vars

\* C20: gameOver and win are never both true; gameOver is set only by a
\* step that is a revealCell returning true, win only by one that is a
\* revealCell returning false after which checkWinCondition is true; both
\* are false when a new engine is constructed, for a new game or another
\* difficulty.
C20_GameOverXorWin ==
    /\ [](~(gameOver /\ win))
    /\ [][/\ (gameOver' /\ ~gameOver) =>
                \E p \in Positions :
                    /\ revealCell(board, p[1], p[2]).ret
                    /\ board' = revealCell(board, p[1], p[2]).board
          /\ (win' /\ ~win) =>
                \E p \in Positions :
                    /\ ~revealCell(board, p[1], p[2]).ret
                    /\ board' = revealCell(board, p[1], p[2]).board
                    /\ checkWinCondition(board')
          /\ (pc = "ready" /\ pc' = "placeMines") => (~gameOver' /\ ~win')
          /\ pc = "placeMines" => (gameOver' = gameOver /\ win' = win)]_vars

\* a game has been won while a timeout set during it is pending
C20_Witness ==
    /\ pc = "ready"
    /\ win
    /\ ~gameOver
    /\ \E x \in timers : x.live /\ ~x.win

====
